---- MODULE Spec2Model ----
(***************************************************************************)
(* Model of the slug allocator of lib.reviews:                             *)
(* ThingSlug.qualifiedSave (src/models/thing-slug.js).                     *)
(*                                                                         *)
(* Strings are sequences of one-character strings, so that the             *)
(* concatenation  name + '-' + String(q), the conversion String(q) and     *)
(* the parse Number(qualifierPart) are computed, not assumed.              *)
(***************************************************************************)
EXTENDS Integers, Sequences, FiniteSets, TLC

\* ------------------------------------------------------------------ bounds
MaxCalls == 3
MaxInFlight == 2
MaxRemoved == 1
\* calls followed to their end where termination is checked
MaxLiveCalls == 2
\* uploads in one submission of the upload form
MaxUploads == 2
\* search requests fired where responses arrive in any order
MaxQueries == 3
\* page loads where the result pages are browsed one after the other
MaxPageLoads == 5
\* readings of the browser clock
MaxTime == 2
\* items of one search response that the client-side filter looks at
MaxItems == 2

Calls == 1..MaxCalls
\* every call may bring a thing of its own
Things == 1..MaxCalls
\* who asks for a slug: the thing and the user acting on it
Requesters == {<<thingID, IF thingID % 2 = 1 THEN "x" ELSE "y">> : thingID \in Things}
\* desired names offered by the callers; "a-2" is what the allocator itself
\* derives from "a" on the first collision
DesiredNames == {<<"a">>, <<"a", "-", "2">>}
\* qualifierPart values of records that were not written by qualifiedSave
AnomalousQualifiers ==
  { <<>>, <<" ">>, <<"x">>, <<"2", ".", "5">>, <<"9">>, <<"-", "2">>, <<"3", "x">> }
\* error.name of a store operation that fails for another reason than an
\* existing primary key
StoreErrors == {"ReqlTimeoutError"}

\* ------------------------------------------------- JavaScript value helpers
\* the value of a field that is not set on a document
Undefined == <<"undefined">>

DigitChars == <<"0", "1", "2", "3", "4", "5", "6", "7", "8", "9">>
IsDigit(ch) == \E i \in 1..10 : DigitChars[i] = ch
DigitVal(ch) == (CHOOSE i \in 1..10 : DigitChars[i] = ch) - 1

RECURSIVE Pow10(_)
Pow10(e) == IF e = 0 THEN 1 ELSE 10 * Pow10(e - 1)

\* decimal digits of a natural number
RECURSIVE NatToStr(_)
NatToStr(n) ==
  IF n < 10 THEN <<DigitChars[n + 1]>>
  ELSE NatToStr(n \div 10) \o <<DigitChars[(n % 10) + 1]>>

\* value of a string of digits
RECURSIVE DigitsToNat(_)
DigitsToNat(s) ==
  IF s = <<>> THEN 0
  ELSE 10 * DigitsToNat(SubSeq(s, 1, Len(s) - 1)) + DigitVal(s[Len(s)])

\* A JavaScript number is NaN or (-1)^neg * m / 10^e, kept normalised
\* (no trailing zero in the fraction).
NaN == [nan |-> TRUE, neg |-> FALSE, m |-> 0, e |-> 0]
RECURSIVE NormNum(_, _, _)
NormNum(neg, m, e) ==
  IF e > 0 /\ m % 10 = 0 THEN NormNum(neg, m \div 10, e - 1)
  ELSE [nan |-> FALSE, neg |-> neg, m |-> m, e |-> e]

RECURSIVE TrimLeft(_)
TrimLeft(s) == IF s # <<>> /\ s[1] = " " THEN TrimLeft(Tail(s)) ELSE s
RECURSIVE TrimRight(_)
TrimRight(s) ==
  IF s # <<>> /\ s[Len(s)] = " " THEN TrimRight(SubSeq(s, 1, Len(s) - 1)) ELSE s

\* Number(v): ToNumber of undefined is NaN; of a string, the StringNumericLiteral
\* grammar restricted to  ws* [+-] digits [. digits] ws*  (the empty or blank
\* string is 0); anything else is NaN.
ParseUnsigned(neg, s) ==
  LET dots == {i \in 1..Len(s) : s[i] = "."}
      AllDigits(t) == \A i \in 1..Len(t) : IsDigit(t[i])
  IN  IF dots = {} THEN
        IF s # <<>> /\ AllDigits(s) THEN NormNum(neg, DigitsToNat(s), 0) ELSE NaN
      ELSE IF Cardinality(dots) > 1 THEN NaN
      ELSE LET d == CHOOSE i \in dots : TRUE
               ip == SubSeq(s, 1, d - 1)
               fp == SubSeq(s, d + 1, Len(s))
           IN  IF AllDigits(ip) /\ AllDigits(fp) /\ Len(ip) + Len(fp) > 0
               THEN NormNum(neg, DigitsToNat(ip \o fp), Len(fp))
               ELSE NaN

Number(v) ==
  IF v = Undefined THEN NaN
  ELSE LET t == TrimRight(TrimLeft(v))
       IN  IF t = <<>> THEN NormNum(FALSE, 0, 0)
           ELSE IF t[1] = "-" THEN ParseUnsigned(TRUE, Tail(t))
           ELSE IF t[1] = "+" THEN ParseUnsigned(FALSE, Tail(t))
           ELSE ParseUnsigned(FALSE, t)

isNaN(x) == x.nan

\* x + 2, for the numbers that are not negative
PlusTwo(x) ==
  IF x.nan THEN NaN ELSE NormNum(x.neg, x.m + 2 * Pow10(x.e), x.e)

\* x + 1
PlusOne(x) ==
  IF x.nan THEN NaN
  ELSE IF ~x.neg THEN NormNum(FALSE, x.m + Pow10(x.e), x.e)
  ELSE IF Pow10(x.e) >= x.m THEN NormNum(FALSE, Pow10(x.e) - x.m, x.e)
  ELSE NormNum(TRUE, x.m - Pow10(x.e), x.e)

\* the number literal that is one more than n
OneMore(n) == NormNum(FALSE, n + 1, 0)

\* the number literal n
Num(n) == NormNum(FALSE, n, 0)

RECURSIVE ZeroPad(_, _)
ZeroPad(s, len) == IF Len(s) >= len THEN s ELSE ZeroPad(<<"0">> \o s, len)

\* String(x)
String(x) ==
  IF x.nan THEN <<"N", "a", "N">>
  ELSE LET sign == IF x.neg /\ x.m # 0 THEN <<"-">> ELSE <<>>
           ip == NatToStr(x.m \div Pow10(x.e))
           fp == ZeroPad(NatToStr(x.m % Pow10(x.e)), x.e)
       IN  IF x.e = 0 THEN sign \o ip ELSE sign \o ip \o <<".">> \o fp

\* ------------------------------------------------------------------- state
VARIABLES
  store,    \* the thing_slugs table: a set of documents, primary key `name`
  now,      \* the clock the callers read createdOn from; every request reads
            \* a later time than the requests before it
  calls,    \* per qualifiedSave call: position, the `slug` document, outcome
  removed,  \* the documents that were deleted from the table
  edit,     \* a POST /:id/edit/label request: position and what it did
  upl,      \* a POST /:id/upload request: position, its uploads, its response
  ac        \* the Wikidata autocomplete widget and its requests in flight

vars == <<store, now, calls, removed, edit, upl, ac>>

\* the variables of the slug table and its calls
slugVars == <<store, now, calls, removed>>

\* a document of the thing_slugs table (thingSlugSchema)
Doc(name, baseName, qualifierPart, thingID, createdOn, createdBy) ==
  [name |-> name, baseName |-> baseName, qualifierPart |-> qualifierPart,
   thingID |-> thingID, createdOn |-> createdOn, createdBy |-> createdBy]

NoDoc == Doc(Undefined, Undefined, Undefined, 0, 0, "none")

\* A call: pc is the store operation it waits for; slug is the document the
\* method works on; result/error is what the promise settles with.  The other
\* fields record the call's arguments and what it did: the inserts and queries
\* it issued, the rows it wrote, and whether the qualified name was free when
\* the widened query ran; fault is the error of a store operation of the call
\* that failed for another reason than an existing primary key.
IdleCall ==
  [pc |-> "idle", slug |-> NoDoc,
   result |-> NoDoc, error |-> "none", path |-> "none",
   arg |-> NoDoc, inserts |-> 0, queries |-> 0, made |-> {},
   freeAtQuery |-> FALSE, fault |-> "none"]

InFlight(c) == calls[c].pc \in {"save1", "q1", "q2", "save2"}
Done(c) == calls[c].pc \in {"resolved", "rejected"}

\* ------------------------------------------------------ the store interface
\* the owner filter without the thing
FilterIgnoringThing(S, baseName, thingID) == {r \in S : r.baseName = baseName}

\* the rows a filter selects
FilterBaseThing(S, baseName, thingID) ==
  {r \in S : r.baseName = baseName /\ r.thingID = thingID}

FilterBase(S, baseName) == {r \in S : r.baseName = baseName}

\* limit(1) without the order: any row of the selection
AnyRowLimit1(rows) == IF rows = {} THEN {<<>>} ELSE {<<r>> : r \in rows}

\* .orderBy(r.desc('createdOn')).limit(1): the possible results, each a
\* sequence of at most one row; rows with equal createdOn come in any order
OrderByDescLimit1(rows) ==
  IF rows = {} THEN {<<>>}
  ELSE {<<r>> : r \in {x \in rows : \A y \in rows : y.createdOn <= x.createdOn}}

\* a table that accepts any insert
NoPrimaryKeyCheck(S, doc) == FALSE

\* insert by primary key: does a row with this name exist already?
DuplicatePrimaryKey(S, doc) == \E r \in S : r.name = doc.name

\* a save() that replaces the row of the same name
SaveOverwrites(S, doc, duplicate) == {r \in S : r.name # doc.name} \cup {doc}

\* the table after save(): an insert, refused when the name exists
AfterSave(S, doc, duplicate) == IF duplicate THEN S ELSE S \cup {doc}

\* ------------------------------------------------------------ qualifiedSave
\* qualifiedSave without its first statement
BaseNameNotStored(slug) == slug

\* slug.baseName = slug.name, on the document the caller built
WithBaseName(slug) == [slug EXCEPT !.baseName = slug.name]

\* x - 1
MinusOne(x) ==
  LET y == PlusOne([x EXCEPT !.neg = ~x.neg]) IN [y EXCEPT !.neg = ~y.neg /\ y.m # 0]

\* the qualifier counted down instead of up
LatestQualifierCountedDown(slugs) ==
  IF Len(slugs) > 0 /\ ~isNaN(Number(slugs[1].qualifierPart))
  THEN MinusOne(Number(slugs[1].qualifierPart))
  ELSE Num(2)

\* the qualifier of the second insert, from the result of the widened query
LatestQualifier(slugs) ==
  IF Len(slugs) > 0 /\ ~isNaN(Number(slugs[1].qualifierPart))
  THEN PlusOne(Number(slugs[1].qualifierPart))
  ELSE Num(2)

\* the name qualified, the qualifier not recorded on the document
QualifierNotRecorded(slug, latestQualifier) ==
  [slug EXCEPT !.name = slug.name \o <<"-">> \o String(latestQualifier)]

\* slug.name = slug.name + '-' + String(q); slug.qualifierPart = String(q)
Qualify(slug, latestQualifier) ==
  [slug EXCEPT !.name = slug.name \o <<"-">> \o String(latestQualifier),
               !.qualifierPart = String(latestQualifier)]

\* the owner query's result ignored
OwnerMatchIgnored(slugs) == FALSE

\* what the owner query makes the call do next
OwnerMatch(slugs) == Len(slugs) > 0

\* Thing ids are opaque (uuid) and only compared for equality: a request is
\* for a thing seen before or for the next unseen one.
KnownOrNext(thingID) ==
  \A k \in 1..(thingID - 1) : \E d \in Calls : calls[d].arg.thingID = k

\* the caller builds the document (name, thingID, createdOn, createdBy) and
\* calls qualifiedSave, which stores the base name and issues the first insert
Start(c, name, thingID, actor) ==
  /\ calls[c].pc = "idle"
  /\ \A d \in Calls : d < c => calls[d].pc # "idle"
  /\ KnownOrNext(thingID)
  /\ Cardinality({d \in Calls : InFlight(d)}) < MaxInFlight
  /\ now' = now + 1
  /\ calls' = [calls EXCEPT ![c] =
         [IdleCall EXCEPT
            !.pc = "save1",
            !.arg = Doc(name, Undefined, Undefined, thingID, now + 1, actor),
            !.slug = WithBaseName(Doc(name, Undefined, Undefined, thingID, now + 1, actor))]]
  /\ UNCHANGED <<store, removed, edit, upl, ac>>

\* the disambiguation entered whether or not the first insert failed
AlwaysDisambiguate(duplicate) == "q1"

\* .save().then(resolve).catch(error => ...): where the call goes after the
\* first insert
AfterFirstSave(duplicate) == IF duplicate THEN "q1" ELSE "resolved"

\* the first save() is applied by the store
FirstSave(c) ==
  /\ calls[c].pc = "save1"
  /\ LET slug == calls[c].slug
         duplicate == DuplicatePrimaryKey(store, slug)
         next == AfterFirstSave(duplicate)
     IN  /\ store' = AfterSave(store, slug, duplicate)
         /\ calls' = [calls EXCEPT
                    ![c].pc = next,
                    ![c].inserts = @ + 1,
                    ![c].made = IF duplicate THEN @ ELSE @ \cup {slug},
                    ![c].result = IF next = "resolved" THEN slug ELSE NoDoc,
                    ![c].path = IF next = "resolved" THEN "first" ELSE "none"]
  /\ UNCHANGED <<now, removed, edit, upl, ac>>

\* the query for an earlier use of this base name by this thing
OwnerQuery(c) ==
  /\ calls[c].pc = "q1"
  /\ LET slug == calls[c].slug IN
     \E slugs \in OrderByDescLimit1(FilterBaseThing(store, slug.name, slug.thingID)) :
       IF OwnerMatch(slugs) THEN
         calls' = [calls EXCEPT ![c].pc = "resolved", ![c].result = slugs[1],
                                ![c].path = "owner", ![c].queries = @ + 1]
       ELSE
         calls' = [calls EXCEPT ![c].pc = "q2", ![c].queries = @ + 1]
  /\ UNCHANGED <<store, now, removed, edit, upl, ac>>

\* the widened query, and the new name and qualifier computed from its result
WidenedQuery(c) ==
  /\ calls[c].pc = "q2"
  /\ LET slug == calls[c].slug IN
     \E slugs \in OrderByDescLimit1(FilterBase(store, slug.name)) :
       calls' = [calls EXCEPT
         ![c].pc = "save2",
         ![c].queries = @ + 1,
         ![c].freeAtQuery =
            ~DuplicatePrimaryKey(store, Qualify(slug, LatestQualifier(slugs))),
         ![c].slug = Qualify(slug, LatestQualifier(slugs))]
  /\ UNCHANGED <<store, now, removed, edit, upl, ac>>

\* a second save() whose failure starts the disambiguation over
RetryOnSecondSaveError(error) == [pc |-> "q2", error |-> "none"]

\* .catch(reject) on the second save()
OnSecondSaveError(error) == [pc |-> "rejected", error |-> error]

\* the second save() is applied by the store
SecondSave(c) ==
  /\ calls[c].pc = "save2"
  /\ LET slug == calls[c].slug
         duplicate == DuplicatePrimaryKey(store, slug)
         failed == OnSecondSaveError("DuplicatePrimaryKeyError")
     IN  /\ store' = AfterSave(store, slug, duplicate)
         /\ calls' = [calls EXCEPT
                    ![c].pc = IF duplicate THEN failed.pc ELSE "resolved",
                    ![c].freeAtQuery = FALSE,
                    ![c].error = IF duplicate THEN failed.error ELSE "none",
                    ![c].inserts = @ + 1,
                    ![c].made = IF duplicate THEN @ ELSE @ \cup {slug},
                    ![c].result = IF duplicate THEN NoDoc ELSE slug,
                    ![c].path = IF duplicate THEN "none" ELSE "second"]
  /\ UNCHANGED <<now, removed, edit, upl, ac>>

\* qualifiedSave as a function: the ways a call with the document arg, run
\* alone against the table S, can settle, each with the table it leaves
Outcome(pc, result, error, S) ==
  [pc |-> pc, result |-> result, error |-> error, store |-> S]

SoloRun(S, arg) ==
  LET slug == WithBaseName(arg)
      duplicate == DuplicatePrimaryKey(S, slug)
      Second(slugs) ==
        LET qualified == Qualify(slug, LatestQualifier(slugs))
            duplicate2 == DuplicatePrimaryKey(S, qualified)
            failed == OnSecondSaveError("DuplicatePrimaryKeyError")
        IN  IF duplicate2
            THEN Outcome(failed.pc, NoDoc, failed.error, AfterSave(S, qualified, duplicate2))
            ELSE Outcome("resolved", qualified, "none", AfterSave(S, qualified, duplicate2))
  IN  IF AfterFirstSave(duplicate) = "resolved"
      THEN {Outcome("resolved", slug, "none", AfterSave(S, slug, duplicate))}
      ELSE UNION {
             IF OwnerMatch(owned)
             THEN {Outcome("resolved", owned[1], "none", AfterSave(S, slug, duplicate))}
             ELSE {Second(slugs) :
                     slugs \in OrderByDescLimit1(FilterBase(AfterSave(S, slug, duplicate), slug.name))}
             : owned \in OrderByDescLimit1(
                           FilterBaseThing(AfterSave(S, slug, duplicate), slug.name, slug.thingID))}

\* every error of the first save() taken for a duplicate key
EveryErrorDisambiguates(error) == "q1"

\* .catch(error => { if (error.name === 'DuplicatePrimaryKeyError') ... else
\* reject(error) }): where the call goes when the first save() fails
OnFirstSaveError(error) ==
  IF error = "DuplicatePrimaryKeyError" THEN "q1" ELSE "rejected"

\* the first save() fails in the store, nothing is written
FirstSaveFails(c, error) ==
  /\ calls[c].pc = "save1"
  /\ LET next == OnFirstSaveError(error) IN
     calls' = [calls EXCEPT
                ![c].pc = next,
                ![c].inserts = @ + 1,
                ![c].fault = error,
                ![c].error = IF next = "rejected" THEN error ELSE "none"]
  /\ UNCHANGED <<store, now, removed, edit, upl, ac>>

\* the owner query fails: .catch(reject)
OwnerQueryFails(c, error) ==
  /\ calls[c].pc = "q1"
  /\ calls' = [calls EXCEPT ![c].pc = "rejected", ![c].queries = @ + 1,
                            ![c].fault = error, ![c].error = error]
  /\ UNCHANGED <<store, now, removed, edit, upl, ac>>

\* the widened query fails: .catch(reject)
WidenedQueryFails(c, error) ==
  /\ calls[c].pc = "q2"
  /\ calls' = [calls EXCEPT ![c].pc = "rejected", ![c].queries = @ + 1,
                            ![c].fault = error, ![c].error = error]
  /\ UNCHANGED <<store, now, removed, edit, upl, ac>>

\* the second save() fails in the store, nothing is written: .catch(reject)
SecondSaveFails(c, error) ==
  /\ calls[c].pc = "save2"
  /\ LET failed == OnSecondSaveError(error) IN
     calls' = [calls EXCEPT ![c].pc = failed.pc, ![c].error = failed.error,
                            ![c].inserts = @ + 1, ![c].freeAtQuery = FALSE,
                            ![c].fault = error]
  /\ UNCHANGED <<store, now, removed, edit, upl, ac>>

\* deletion of a thing takes its slugs with it (outside qualifiedSave)
DeleteThing(thingID) ==
  /\ Cardinality(removed) < MaxRemoved
  /\ \E r \in store : r.thingID = thingID
  /\ store' = {r \in store : r.thingID # thingID}
  /\ removed' = removed \cup {r \in store : r.thingID = thingID}
  /\ UNCHANGED <<now, calls, edit, upl, ac>>

\* ------------------------------------------- POST /:id/edit/label (routes)
\* The request: pc is the promise the handler waits for; userCanEdit and
\* validLanguage are what the request and its user are; the other fields are
\* what the handler did: newRevision called, outcome of updateSlug, save()
\* called on the updated revision, revision saved, thing indexed, response.
IdleEdit ==
  [pc |-> "idle", userCanEdit |-> FALSE, validLanguage |-> FALSE,
   newRevision |-> FALSE, slug |-> "none", saveCalled |-> FALSE,
   saved |-> FALSE, indexed |-> FALSE, response |-> "none"]

\* the request arrives and resolveAndLoadThing is called
EditLabelPost(userCanEdit, validLanguage) ==
  /\ edit.pc = "idle"
  /\ edit' = [edit EXCEPT !.pc = "load", !.userCanEdit = userCanEdit,
                          !.validLanguage = validLanguage]
  /\ UNCHANGED <<store, now, calls, removed, upl, ac>>

\* the thing edited by whoever asks
NoPermissionGate(userCanEdit) == "newRevision"

\* if (!thing.userCanEdit) return render.permissionError(...)
AfterLoad(userCanEdit) == IF ~userCanEdit THEN "permissionError" ELSE "newRevision"

\* resolveAndLoadThing settles: the resource error handler, the permission
\* error, or thing.newRevision(req.user)
EditLoaded(ok) ==
  /\ edit.pc = "load"
  /\ edit' =
       IF ~ok THEN [edit EXCEPT !.pc = "done", !.response = "resourceError"]
       ELSE IF AfterLoad(edit.userCanEdit) = "permissionError"
       THEN [edit EXCEPT !.pc = "done", !.response = "permissionError"]
       ELSE [edit EXCEPT !.pc = "newRevision", !.newRevision = TRUE]
  /\ UNCHANGED <<store, now, calls, removed, upl, ac>>

\* newRevision settles: next(error); or the language is validated, which
\* throws InvalidLanguageError (flash and form again); or the label is set and
\* newRev.updateSlug is called
EditNewRevision(ok) ==
  /\ edit.pc = "newRevision"
  /\ edit' =
       IF ~ok THEN [edit EXCEPT !.pc = "done", !.response = "next"]
       ELSE IF ~edit.validLanguage
       THEN [edit EXCEPT !.pc = "done", !.response = "form"]
       ELSE [edit EXCEPT !.pc = "updateSlug"]
  /\ UNCHANGED <<store, now, calls, removed, upl, ac>>

\* the revision saved whether or not the slug was updated
SaveRegardless(ok) == "save"

\* .then(updatedRev => updatedRev.save() ...).catch(next) on updateSlug
AfterUpdateSlug(ok) == IF ok THEN "save" ELSE "next"

\* updateSlug settles
EditSlugUpdated(ok) ==
  /\ edit.pc = "updateSlug"
  /\ edit' =
       IF AfterUpdateSlug(ok) = "save"
       THEN [edit EXCEPT !.pc = "save", !.saveCalled = TRUE,
                         !.slug = IF ok THEN "ok" ELSE "failed"]
       ELSE [edit EXCEPT !.pc = "done", !.slug = "failed", !.response = "next"]
  /\ UNCHANGED <<store, now, calls, removed, upl, ac>>

\* updatedRev.save() settles: search.indexThing and res.redirect, or next
EditSaved(ok) ==
  /\ edit.pc = "save"
  /\ edit' =
       IF ok THEN [edit EXCEPT !.pc = "done", !.saved = TRUE, !.indexed = TRUE,
                               !.response = "redirect"]
       ELSE [edit EXCEPT !.pc = "done", !.response = "next"]
  /\ UNCHANGED <<store, now, calls, removed, upl, ac>>

\* ---------------------------------------------- POST /:id/upload (routes)
\* An upload of the submission: validForm and goodName are what the form data
\* and the file name are; step is the callback the upload waits for; promise
\* is its finishUpload promise; renamed: fs.rename to the final location
\* succeeded; atFinal: where the file is; saved: upload.save() succeeded;
\* back: the rename back to the temporary directory.
UploadFile(validForm, goodName) ==
  [validForm |-> validForm, goodName |-> goodName, step |-> "none",
   promise |-> "none", renamed |-> FALSE, atFinal |-> FALSE, saved |-> FALSE,
   back |-> "none"]

\* the submissions: one to MaxUploads uploads
Submissions ==
  UNION {[1..n -> {UploadFile(v, g) : v \in BOOLEAN, g \in BOOLEAN}] : n \in 1..MaxUploads}

\* The request: pc is what the handler waits for; all is the promise
\* Promise.all(finishUploadPromises), which exists only when the forEach over
\* the uploads came to its end.
IdleUpload == [pc |-> "idle", files |-> <<>>, all |-> "none", response |-> "none"]

\* the request arrives with a valid language and uploads in the form, and the
\* File.getNotStaleOrDeleted lookups are started
UploadPost(files) ==
  /\ upl.pc = "idle"
  /\ upl' = [upl EXCEPT !.pc = "lookup", !.files = files]
  /\ UNCHANGED <<store, now, calls, removed, edit, ac>>

\* the uploads the forEach gets through before a check of the form data
\* throws: all of them, or those before the first one with bad form data
Processed(files) ==
  {i \in 1..Len(files) : \A j \in 1..i : files[j].validForm}

\* the body of the forEach for one upload whose form data passed: its
\* finishUpload promise is created, and the executor rejects it for a bad
\* file name or calls fs.rename
StartFinish(file) ==
  IF file.goodName THEN [file EXCEPT !.step = "rename", !.promise = "pending"]
  ELSE [file EXCEPT !.step = "settled", !.promise = "rejected"]

\* Promise.all(finishUploadPromises).then(flash, redirect).catch(next), run
\* when a finishUpload promise settles
AllSettles(u) ==
  IF u.all # "pending" THEN u
  ELSE IF \E i \in 1..Len(u.files) : u.files[i].promise = "rejected"
  THEN [u EXCEPT !.all = "rejected", !.response = "next"]
  ELSE IF \A i \in 1..Len(u.files) : u.files[i].promise = "resolved"
  THEN [u EXCEPT !.all = "resolved", !.response = "completedRedirect"]
  ELSE u

\* the lookups settle: on an error, flash and redirect; otherwise the forEach
\* runs over the uploads in one go: each upload's form data is checked and
\* its finishUpload promise started, until a check throws (flash and
\* redirect) or the last upload is through (Promise.all)
UploadsLoaded(ok) ==
  /\ upl.pc = "lookup"
  /\ upl' =
       IF ~ok THEN [upl EXCEPT !.pc = "done", !.response = "errorRedirect"]
       ELSE LET files == [i \in 1..Len(upl.files) |->
                            IF i \in Processed(upl.files)
                            THEN StartFinish(upl.files[i]) ELSE upl.files[i]]
                thrown == Processed(upl.files) # 1..Len(upl.files)
            IN  IF thrown
                THEN [upl EXCEPT !.pc = "finishing", !.files = files,
                                 !.response = "errorRedirect"]
                ELSE AllSettles([upl EXCEPT !.pc = "finishing", !.files = files,
                                            !.all = "pending"])
  /\ UNCHANGED <<store, now, calls, removed, edit, ac>>

\* the metadata saved whether or not the file was moved
SaveWithoutMove(ok) == "save"

\* fs.rename(oldPath, newPath, error => { if (error) reject(error); else
\* upload.save() ... })
AfterMove(ok) == IF ok THEN "save" ELSE "settled"

\* the callback of fs.rename to the final location
RenameDone(i, ok) ==
  /\ i \in 1..Len(upl.files)
  /\ upl.files[i].step = "rename"
  /\ upl' = AllSettles([upl EXCEPT
         !.files[i].renamed = ok,
         !.files[i].atFinal = ok,
         !.files[i].step = AfterMove(ok),
         !.files[i].promise = IF AfterMove(ok) = "save" THEN "pending" ELSE "rejected"])
  /\ UNCHANGED <<store, now, calls, removed, edit, ac>>

\* upload.save() settles: resolve(); or the rename back to the temporary
\* directory is called and the promise rejected
SaveDone(i, ok) ==
  /\ i \in 1..Len(upl.files)
  /\ upl.files[i].step = "save"
  /\ upl' = AllSettles([upl EXCEPT
         !.files[i].saved = ok,
         !.files[i].step = "settled",
         !.files[i].promise = IF ok THEN "resolved" ELSE "rejected",
         !.files[i].back = IF ok THEN "none" ELSE "called"])
  /\ UNCHANGED <<store, now, calls, removed, edit, ac>>

\* the callback of the rename back, which only logs
RenamedBack(i, ok) ==
  /\ i \in 1..Len(upl.files)
  /\ upl.files[i].back = "called"
  /\ upl' = [upl EXCEPT !.files[i].back = IF ok THEN "done" ELSE "failed",
                        !.files[i].atFinal = ~ok]
  /\ UNCHANGED <<store, now, calls, removed, edit, ac>>

\* ------------------------- requestFn of the Wikidata autocomplete (frontend)
\* what the user can have typed into the search box
Queries == {"", "x", "y"}

\* requestedOffset of a first page: undefined
NoOffset == 0

\* this.latestQuery before the first request: undefined
NoTime == -1

\* The page the widget shows, with what its navigation buttons close over:
\* of is the request whose response was rendered (0: nothing rendered yet)
NoPage ==
  [of |-> 0, query |-> "", requestedOffset |-> NoOffset, isFirstPage |-> TRUE,
   hasNext |-> FALSE, nextOffset |-> NoOffset]

\* The widget: clock is Date.now(); latestQuery, results, prevStack are the
\* fields of the AC instance (results names the request whose list it holds,
\* filled once a response wrote it); page is what is rendered; spinnerHidden
\* and errorShown are the classes of the spinner and of the generic error;
\* reqs are the $.ajax requests in flight; fired counts the requests, the
\* n-th request fired has id n; shown is the history of the pages rendered:
\* the offset of the page rendered for what was typed, one more offset for a
\* page rendered for "next page", one less for one rendered for "previous
\* page".
IdleAC ==
  [clock |-> 0, latestQuery |-> NoTime,
   results |-> [of |-> 0, filled |-> FALSE], page |-> NoPage,
   prevStack |-> <<>>, spinnerHidden |-> TRUE, errorShown |-> FALSE,
   reqs |-> {}, fired |-> 0, shown |-> <<>>]

\* requestFn(query, requestedOffset) up to the $.ajax call, on the widget a;
\* via tells where the call came from (typing, next page, previous page)
RequestFn(a, query, requestedOffset, via) ==
  LET time == a.clock
      id == a.fired + 1
      a1 == [a EXCEPT
               !.fired = id,
               !.latestQuery = IF a.latestQuery = NoTime \/ a.latestQuery < time
                               THEN time ELSE a.latestQuery,
               !.results = [of |-> id, filled |-> FALSE]]
      isFirstPage == requestedOffset = NoOffset
  IN  IF query = ""
      THEN [a1 EXCEPT !.spinnerHidden = TRUE,
                      !.page = [NoPage EXCEPT !.of = id],
                      !.shown = <<>>]
      ELSE [a1 EXCEPT
              !.spinnerHidden = FALSE,
              !.prevStack = IF isFirstPage THEN <<>> ELSE a.prevStack,
              !.reqs = a.reqs \cup
                 {[id |-> id, time |-> time, query |-> query,
                   requestedOffset |-> requestedOffset,
                   isFirstPage |-> isFirstPage, via |-> via]}]

\* time passes
Tick ==
  /\ ac.clock < MaxTime
  /\ ac' = [ac EXCEPT !.clock = @ + 1]
  /\ UNCHANGED <<store, now, calls, removed, edit, upl>>

\* the user changes the text of the search box
Type(query) ==
  /\ ac' = RequestFn(ac, query, NoOffset, "type")
  /\ UNCHANGED <<store, now, calls, removed, edit, upl>>

\* the offset of the page after the current one put on the stack
PushNextOffset(stack, page) == Append(stack, page.nextOffset)

\* this.prevStack.push(requestedOffset)
PushOffset(stack, page) == Append(stack, page.requestedOffset)

\* click on "next page" of the page shown
ClickNext ==
  /\ ac.page.hasNext
  /\ ac' = RequestFn([ac EXCEPT !.prevStack = PushOffset(ac.prevStack, ac.page)],
                     ac.page.query, ac.page.nextOffset, "next")
  /\ UNCHANGED <<store, now, calls, removed, edit, upl>>

\* click on "previous page" of the page shown: this.prevStack.pop(), which
\* is undefined on an empty stack
ClickPrev ==
  /\ ac.page.of # 0 /\ ~ac.page.isFirstPage
  /\ LET n == Len(ac.prevStack)
         popped == IF n = 0 THEN NoOffset ELSE ac.prevStack[n]
         rest == IF n = 0 THEN <<>> ELSE SubSeq(ac.prevStack, 1, n - 1)
     IN  ac' = RequestFn([ac EXCEPT !.prevStack = rest], ac.page.query, popped, "prev")
  /\ UNCHANGED <<store, now, calls, removed, edit, upl>>

\* if (time < this.latestQuery) return
Superseded(time, latestQuery) == time < latestQuery

\* .done(data => ...) for request r, with a response whose data.search makes
\* the filter loop stop at resultIndex and that has more results or not
AjaxDone(r, resultIndex, more) ==
  /\ r \in ac.reqs
  /\ more => resultIndex > 0
  /\ ac' =
       IF Superseded(r.time, ac.latestQuery) THEN [ac EXCEPT !.reqs = @ \ {r}]
       ELSE [ac EXCEPT
               !.reqs = @ \ {r},
               !.spinnerHidden = TRUE,
               !.results = [of |-> r.id, filled |-> TRUE],
               !.page = [of |-> r.id, query |-> r.query,
                         requestedOffset |-> r.requestedOffset,
                         isFirstPage |-> r.isFirstPage,
                         hasNext |-> more,
                         nextOffset |-> IF more THEN r.requestedOffset + resultIndex
                                        ELSE NoOffset],
               !.shown = IF r.via = "type" THEN <<r.requestedOffset>>
                         ELSE IF r.via = "prev" THEN SubSeq(@, 1, Len(@) - 1)
                         ELSE Append(@, r.requestedOffset)]
  /\ UNCHANGED <<store, now, calls, removed, edit, upl>>

\* .fail(_error => ...) for request r
AjaxFail(r) ==
  /\ r \in ac.reqs
  /\ ac' = [ac EXCEPT !.reqs = @ \ {r}, !.errorShown = TRUE, !.spinnerHidden = TRUE]
  /\ UNCHANGED <<store, now, calls, removed, edit, upl>>

\* ------------------------------------------------------------ specification
\* The table outlives the process: when the first request of a run arrives it
\* is empty or holds rows that first uses of a name by an earlier thing
\* (thing 0, which asks for nothing more) left there.
EarlierRows == {Doc(name, name, Undefined, 0, 0, "x") : name \in DesiredNames}

\* no request to the routes under way, the search box untouched
RestIdle == edit = IdleEdit /\ upl = IdleUpload /\ ac = IdleAC

Init ==
  /\ store \in SUBSET EarlierRows
  /\ now = 0
  /\ calls = [c \in Calls |-> IdleCall]
  /\ removed = {}
  /\ RestIdle

\* a request for one of the names
StartWith(names) ==
  \E c \in Calls, name \in names, rq \in Requesters :
     Start(c, name, rq[1], rq[2])

StartSome == StartWith(DesiredNames)

\* where things are deleted, the requests are for the one name "a"
StartSomeDel == StartWith({<<"a">>})

FirstSaveSome == \E c \in Calls : FirstSave(c)

OwnerQuerySome == \E c \in Calls : OwnerQuery(c)

WidenedQuerySome == \E c \in Calls : WidenedQuery(c)

SecondSaveSome == \E c \in Calls : SecondSave(c)

DeleteSome == \E thingID \in {0} \cup Things : DeleteThing(thingID)

\* the allocator alone
Next ==
  \/ StartSome
  \/ FirstSaveSome
  \/ OwnerQuerySome
  \/ WidenedQuerySome
  \/ SecondSaveSome

Spec == Init /\ [][Next]_vars

\* requests that arrive one after the other
StartSequential == (\A d \in Calls : ~InFlight(d)) /\ StartSome

NextSeq ==
  \/ StartSequential
  \/ FirstSaveSome
  \/ OwnerQuerySome
  \/ WidenedQuerySome
  \/ SecondSaveSome

SpecSeq == Init /\ [][NextSeq]_vars

\* the allocator, and things being deleted
NextDel ==
  \/ StartSomeDel
  \/ FirstSaveSome
  \/ OwnerQuerySome
  \/ WidenedQuerySome
  \/ SecondSaveSome
  \/ DeleteSome

SpecDel == Init /\ [][NextDel]_vars

\* the allocator on a store whose operations can fail; the requests are for
\* the one name "a"
FirstSaveFailsSome == \E c \in Calls, error \in StoreErrors : FirstSaveFails(c, error)

OwnerQueryFailsSome == \E c \in Calls, error \in StoreErrors : OwnerQueryFails(c, error)

WidenedQueryFailsSome == \E c \in Calls, error \in StoreErrors : WidenedQueryFails(c, error)

SecondSaveFailsSome == \E c \in Calls, error \in StoreErrors : SecondSaveFails(c, error)

NextFail ==
  \/ StartSomeDel
  \/ FirstSaveSome
  \/ OwnerQuerySome
  \/ WidenedQuerySome
  \/ SecondSaveSome
  \/ FirstSaveFailsSome
  \/ OwnerQueryFailsSome
  \/ WidenedQueryFailsSome
  \/ SecondSaveFailsSome

\* the store answers the operation call c waits for, with a result or an error
Respond(c) ==
  \/ FirstSave(c) \/ OwnerQuery(c) \/ WidenedQuery(c) \/ SecondSave(c)
  \/ \E error \in StoreErrors :
       \/ FirstSaveFails(c, error) \/ OwnerQueryFails(c, error)
       \/ WidenedQueryFails(c, error) \/ SecondSaveFails(c, error)

SpecFail == Init /\ [][NextFail]_vars

\* the same with fewer calls, and every operation issued is answered in the end
StartLive ==
  \E c \in 1..MaxLiveCalls, rq \in Requesters : Start(c, <<"a">>, rq[1], rq[2])

NextLive ==
  \/ StartLive
  \/ FirstSaveSome
  \/ OwnerQuerySome
  \/ WidenedQuerySome
  \/ SecondSaveSome
  \/ FirstSaveFailsSome
  \/ OwnerQueryFailsSome
  \/ WidenedQueryFailsSome
  \/ SecondSaveFailsSome

\* the store does not leave operations unanswered for ever
RespondSome == \E c \in Calls : Respond(c)

SpecLive == Init /\ [][NextLive]_vars /\ WF_vars(RespondSome)

\* records that did not come from qualifiedSave: the unqualified name "a" is
\* held by a row whose qualifierPart is anything but a qualifier
InitAnomaly ==
  /\ \E q \in AnomalousQualifiers :
       store = {Doc(<<"a">>, <<"a">>, q, 0, 0, "none")}
  /\ now = 0
  /\ calls = [c \in Calls |-> IdleCall]
  /\ removed = {}
  /\ RestIdle

SpecAnomaly == InitAnomaly /\ [][Next]_vars

\* the two route handlers, their promises settling in any order
InitRoutes ==
  /\ store = {}
  /\ now = 0
  /\ calls = [c \in Calls |-> IdleCall]
  /\ removed = {}
  /\ RestIdle

EditLabelPostSome ==
  \E userCanEdit \in BOOLEAN, validLanguage \in BOOLEAN :
    EditLabelPost(userCanEdit, validLanguage)

EditLoadedSome == \E ok \in BOOLEAN : EditLoaded(ok)

EditNewRevisionSome == \E ok \in BOOLEAN : EditNewRevision(ok)

EditSlugUpdatedSome == \E ok \in BOOLEAN : EditSlugUpdated(ok)

EditSavedSome == \E ok \in BOOLEAN : EditSaved(ok)

UploadPostSome == \E files \in Submissions : UploadPost(files)

UploadsLoadedSome == \E ok \in BOOLEAN : UploadsLoaded(ok)

RenameDoneSome == \E i \in 1..MaxUploads, ok \in BOOLEAN : RenameDone(i, ok)

SaveDoneSome == \E i \in 1..MaxUploads, ok \in BOOLEAN : SaveDone(i, ok)

RenamedBackSome == \E i \in 1..MaxUploads, ok \in BOOLEAN : RenamedBack(i, ok)

NextRoutes ==
  \/ EditLabelPostSome
  \/ EditLoadedSome
  \/ EditNewRevisionSome
  \/ EditSlugUpdatedSome
  \/ EditSavedSome
  \/ UploadPostSome
  \/ UploadsLoadedSome
  \/ RenameDoneSome
  \/ SaveDoneSome
  \/ RenamedBackSome

SpecRoutes == InitRoutes /\ [][NextRoutes]_vars

\* the search box: requests fired while others are in flight, responses in
\* any order
TypeSome == ac.fired < MaxQueries /\ \E query \in Queries : Type(query)

ClickNextSome == ac.fired < MaxQueries /\ ClickNext

ClickPrevSome == ac.fired < MaxQueries /\ ClickPrev

AjaxDoneSome ==
  \E r \in ac.reqs, resultIndex \in 0..MaxItems, more \in BOOLEAN :
    AjaxDone(r, resultIndex, more)

AjaxFailSome == \E r \in ac.reqs : AjaxFail(r)

NextSearch ==
  \/ Tick
  \/ TypeSome
  \/ ClickNextSome
  \/ ClickPrevSome
  \/ AjaxDoneSome
  \/ AjaxFailSome

SpecSearch == InitRoutes /\ [][NextSearch]_vars

\* the result pages of one query browsed one after the other: a request is
\* fired when the response to the one before was rendered
TypeOnce == ac.fired = 0 /\ Type("x")

ClickNextIdle == ac.reqs = {} /\ ac.fired < MaxPageLoads /\ ClickNext

ClickPrevIdle == ac.reqs = {} /\ ac.fired < MaxPageLoads /\ ClickPrev

NextPages ==
  \/ Tick
  \/ TypeOnce
  \/ ClickNextIdle
  \/ ClickPrevIdle
  \/ AjaxDoneSome

SpecPages == InitRoutes /\ [][NextPages]_vars

\* ------------------------------------------------------------------ claims
Resolved(c) == calls[c].pc = "resolved"
Rejected(c) == calls[c].pc = "rejected"
Conflict(c) == Rejected(c) /\ calls[c].error = "DuplicatePrimaryKeyError"
NameTaken(S, name) == \E r \in S : r.name = name
NoRemoval == removed = {}

\* C1  Uniqueness: the table never holds two documents with the same name, and
\* two different documents returned by successful calls never share a name.
C1_Uniqueness ==
  /\ \A r1 \in store, r2 \in store : r1.name = r2.name => r1 = r2
  /\ \A c1 \in Calls, c2 \in Calls :
       (Resolved(c1) /\ Resolved(c2) /\ calls[c1].result.name = calls[c2].result.name)
         => calls[c1].result = calls[c2].result

C1_Witness ==
  \E c1 \in Calls, c2 \in Calls :
    /\ Resolved(c1) /\ Resolved(c2)
    /\ calls[c1].arg.name = calls[c2].arg.name
    /\ calls[c1].arg.thingID # calls[c2].arg.thingID
    /\ calls[c1].path = "first" /\ calls[c2].path = "second"
    /\ {calls[c1].result, calls[c2].result} \subseteq store

\* the document a first insert of call c stores
FirstDoc(c) ==
  Doc(calls[c].arg.name, calls[c].arg.name, Undefined,
      calls[c].arg.thingID, calls[c].arg.createdOn, calls[c].arg.createdBy)

\* C2  First use: a call whose first insert finds no row named desiredName
\* stores exactly one document and resolves with it: name = baseName =
\* desiredName, no qualifierPart, the caller's thingID, createdOn and
\* createdBy; it issues no query.
C2_FirstUse ==
  [][\A c \in Calls :
       (calls[c].pc = "save1" /\ calls'[c].pc # "save1"
          /\ ~NameTaken(store, calls[c].arg.name))
       => /\ calls'[c].pc = "resolved"
          /\ calls'[c].result = FirstDoc(c)
          /\ FirstDoc(c) \notin store
          /\ store' = store \cup {FirstDoc(c)}
          /\ calls'[c].made = {FirstDoc(c)}
          /\ calls'[c].queries = 0
          /\ calls'[c].inserts = 1]_vars

C2_Witness ==
  \E c \in Calls :
    /\ Resolved(c) /\ calls[c].path = "first"
    /\ calls[c].result = FirstDoc(c)
    /\ calls[c].result \in store
    /\ calls[c].result.createdBy = "y"

\* calls f..c are a run of requests for one desired name by pairwise different
\* things, the first of which found no row with that base name in the table
SequentialRun(f, c) ==
  /\ f <= c
  /\ \A r \in store :
       r.baseName = calls[f].arg.name => \E d \in f..c : r \in calls[d].made
  /\ \A d \in f..c : Done(d) /\ calls[d].arg.name = calls[f].arg.name
  /\ \A d \in f..c, e \in f..c :
       d < e => /\ calls[d].arg.thingID # calls[e].arg.thingID
                /\ calls[d].arg.createdOn < calls[e].arg.createdOn

\* C3  Sequential disambiguation: when requests arrive one after the other,
\* in such a run the first call returns the name itself without qualifier and
\* the i-th call (i >= 2) returns name-i with base name `name` and
\* qualifierPart i.
C3_SequentialDisambiguation ==
  \A f \in Calls, c \in Calls :
    SequentialRun(f, c) =>
      LET i == c - f + 1
          n == calls[f].arg.name
          r == calls[c].result
      IN  /\ Resolved(c)
          /\ r.baseName = n
          /\ IF i = 1 THEN r.name = n /\ r.qualifierPart = Undefined
             ELSE r.name = n \o <<"-">> \o NatToStr(i) /\ r.qualifierPart = NatToStr(i)

\* the qualified rows with base name b among the rows S
Qualified(S, b) == {r \in S : r.baseName = b /\ r.qualifierPart # Undefined}

\* call c's second insert succeeds in this step
SecondInsertSucceeds(c) == calls[c].pc = "save2" /\ calls'[c].pc = "resolved"

\* C4 as stated  Qualifiers of a base name are strictly increasing in
\* allocation order and never handed out twice, also when rows are removed in
\* between: every qualifier handed out is greater than the qualifier of every
\* row of that base name that is or ever was in the table.
C4_MonotonicUnderDeletion ==
  [][\A c \in Calls :
       SecondInsertSucceeds(c) =>
         \A r \in Qualified(store \cup removed, calls[c].slug.baseName) :
           DigitsToNat(r.qualifierPart) < DigitsToNat(calls'[c].result.qualifierPart)]_vars

\* C4 amended  As long as no row with that base name has been removed, the
\* qualifiers handed out for a base name are strictly increasing in allocation
\* order and never handed out twice.
C4_MonotonicWithoutDeletion ==
  [][\A c \in Calls :
       (SecondInsertSucceeds(c)
          /\ \A r \in removed : r.baseName # calls[c].slug.baseName) =>
         \A r \in Qualified(store, calls[c].slug.baseName) :
           DigitsToNat(r.qualifierPart) < DigitsToNat(calls'[c].result.qualifierPart)]_vars

C4_Witness ==
  \E c \in Calls :
    /\ Resolved(c) /\ calls[c].path = "second"
    /\ calls[c].result.qualifierPart = <<"3">>
    /\ \E r \in store : r.baseName = calls[c].result.baseName /\ r.qualifierPart = <<"2">>
    /\ \A r \in removed : r.baseName # calls[c].result.baseName

\* the rows of call c's thing with the requested base name
OwnRows(c) == FilterBaseThing(store, calls[c].arg.name, calls[c].arg.thingID)

\* A call whose thing has a row with the requested base name gets past the
\* first insert without writing, and past the owner query with the most recent
\* of these rows, which the table determines; it writes nothing.
ReturnsOwnRow(c) ==
  OwnRows(c) # {} =>
    /\ (calls[c].pc = "save1" /\ calls'[c].pc # "save1")
         => (calls'[c].pc = "q1" /\ store' = store)
    /\ (calls[c].pc = "q1" /\ calls'[c].pc # "q1")
         => /\ calls'[c].pc = "resolved"
            /\ OrderByDescLimit1(OwnRows(c)) = {<<calls'[c].result>>}
            /\ calls'[c].made = {}
            /\ store' = store

\* no row of the thing of call c has been removed
KeepsItsRows(c) == \A r \in removed : r.thingID # calls[c].arg.thingID

\* C5 as stated  In every state, if the thing already has a row with the
\* requested base name (and has lost none), the call resolves with an existing
\* row of that thing and base name and inserts nothing; two such calls in a
\* row get the same row.
C5_Idempotent == [][\A c \in Calls : KeepsItsRows(c) => ReturnsOwnRow(c)]_vars

\* C5 amended  The same, as long as no row has been removed from the table.
C5_IdempotentWithoutDeletion ==
  [][NoRemoval => \A c \in Calls : ReturnsOwnRow(c)]_vars

C5_Witness ==
  \E c \in Calls :
    /\ Resolved(c) /\ calls[c].path = "owner"
    /\ calls[c].result \in store
    /\ calls[c].result.thingID = calls[c].arg.thingID
    /\ calls[c].result.baseName = calls[c].arg.name
    /\ calls[c].result.qualifierPart # Undefined
    /\ calls[c].made = {}
    /\ NoRemoval

\* two calls of different things that both made the second insert with the
\* same qualified name
SameRetry(c1, c2) ==
  /\ c1 # c2
  /\ calls[c1].inserts = 2 /\ calls[c2].inserts = 2
  /\ Done(c1) /\ Done(c2)
  /\ calls[c1].arg.thingID # calls[c2].arg.thingID
  /\ calls[c1].slug.baseName = calls[c2].slug.baseName
  /\ calls[c1].slug.name = calls[c2].slug.name

\* C6  Conflict surfacing: of two such calls exactly one resolves, and the
\* other is rejected with the duplicate key error and returns no document.
C6_ConflictSurfacing ==
  \A c1 \in Calls, c2 \in Calls :
    SameRetry(c1, c2) =>
      \/ Resolved(c1) /\ Conflict(c2) /\ calls[c2].result = NoDoc
      \/ Resolved(c2) /\ Conflict(c1) /\ calls[c1].result = NoDoc

\* C7  A duplicate key rejection happens only when another call inserted a
\* row between the widened query and the second insert: the name the second
\* insert fails on was free when the widened query ran.
C7_ConflictOnlyWhenRaced ==
  [][\A c \in Calls :
       (calls[c].pc = "save2" /\ Conflict(c)') => calls[c].freeAtQuery]_vars

\* a qualifierPart that is the decimal form of an integer
IsIntegerString(q) ==
  /\ q # Undefined
  /\ Len(q) > 0
  /\ \A i \in 1..Len(q) : IsDigit(q[i]) \/ (i = 1 /\ Len(q) > 1 /\ q[i] \in {"-", "+"})

\* C8  Qualifier fallback: when the widened query finds no row, or a most
\* recent row whose qualifierPart is missing or is not an integer, the second
\* insert uses the qualifier "2".
C8_QualifierFallback ==
  [][\A c \in Calls :
       ( /\ calls[c].pc = "q2" /\ calls'[c].pc = "save2"
         /\ \A s \in OrderByDescLimit1(FilterBase(store, calls[c].slug.name)) :
              s = <<>> \/ ~IsIntegerString(s[1].qualifierPart) )
       => /\ calls'[c].slug.qualifierPart = <<"2">>
          /\ calls'[c].slug.name = calls[c].slug.name \o <<"-", "2">>]_vars

\* C9  Every call inserts zero or one document: exactly one when it resolves
\* by its first or its second insert, none when it resolves with an existing
\* row or is rejected.
C9_AtMostOneInsert ==
  \A c \in Calls :
    /\ Cardinality(calls[c].made) <= 1
    /\ (Resolved(c) /\ calls[c].path \in {"first", "second"})
         => (calls[c].made = {calls[c].result} /\ calls[c].result \in store)
    /\ ((Resolved(c) /\ calls[c].path = "owner") \/ Rejected(c))
         => calls[c].made = {}

C9_Witness ==
  /\ \E c \in Calls : Resolved(c) /\ calls[c].path = "second" /\ Cardinality(calls[c].made) = 1
  /\ \E c \in Calls : Resolved(c) /\ calls[c].path = "owner" /\ calls[c].made = {}
  /\ \E c \in Calls : Rejected(c) /\ calls[c].made = {}

\* C10  A second insert that fails on an existing name rejects the call with
\* the duplicate key error, leaves the table as it was with no row of this
\* call in it, and the call does nothing afterwards.
C10_SecondFailureRejects ==
  [][\A c \in Calls :
       /\ (calls[c].pc = "save2" /\ calls'[c].pc # "save2"
             /\ NameTaken(store, calls[c].slug.name))
          => /\ Conflict(c)'
             /\ calls'[c].result = NoDoc
             /\ calls'[c].made = {}
             /\ calls'[c].queries = 2 /\ calls'[c].inserts = 2
             /\ store' = store
       /\ Rejected(c) => calls'[c] = calls[c]]_vars

C10_Witness ==
  \E c \in Calls :
    /\ Conflict(c)
    /\ calls[c].inserts = 2 /\ calls[c].queries = 2
    /\ NameTaken(store, calls[c].slug.name)
    /\ calls[c].slug \notin store

\* a qualifierPart that is the decimal string of an integer >= 2
IsQualifier(q) ==
  /\ q # Undefined
  /\ Len(q) > 0
  /\ \A i \in 1..Len(q) : IsDigit(q[i])
  /\ q[1] # "0"
  /\ DigitsToNat(q) >= 2

\* C11  Record shape: every document in the table without qualifierPart has
\* name = baseName; every document with a qualifierPart has
\* name = baseName + "-" + qualifierPart, and the qualifierPart is the decimal
\* string of an integer >= 2.
C11_RecordShape ==
  \A r \in store :
    IF r.qualifierPart = Undefined THEN r.name = r.baseName
    ELSE /\ r.name = r.baseName \o <<"-">> \o r.qualifierPart
         /\ IsQualifier(r.qualifierPart)

C11_Witness ==
  /\ \E r \in store : r.qualifierPart = <<"3">> /\ r.name = <<"a", "-", "3">>
  /\ \E r \in store : r.qualifierPart = <<"2">> /\ r.baseName = <<"a">>
  /\ \E r \in store : r.qualifierPart = Undefined /\ r.name = <<"a">>

\* C12  Rows are immutable under allocation: every step of every call leaves
\* each document of the table in the table, unchanged in all its fields; the
\* table only grows, by the documents the calls insert.
C12_ExistingRowsKept ==
  [][/\ store \subseteq store'
     /\ store' \ store \subseteq {calls'[c].result : c \in Calls}
     /\ \A c \in Calls :
          calls'[c].made = calls[c].made \cup ((store' \ store) \cap {calls'[c].slug})]_vars

C12_Witness ==
  \E c \in Calls, r \in store :
    /\ Resolved(c) /\ calls[c].path = "second"
    /\ r.name = calls[c].arg.name
    /\ r.thingID # calls[c].arg.thingID
    /\ r.createdOn < calls[c].arg.createdOn
    /\ calls[c].result \in store

\* call c was answered with a store failure
Faulted(c) == calls[c].fault # "none"

\* C13  A store operation that fails for another reason than a duplicate key
\* makes the call fail with that error, which is not the duplicate key error;
\* the call returns no document and issues no store operation afterwards; a
\* failure of the first insert is followed by no query and no second insert.
C13_StoreFailurePropagates ==
  [][\A c \in Calls :
       /\ Faulted(c)' =>
            /\ Rejected(c)'
            /\ calls'[c].error = calls'[c].fault
            /\ calls'[c].error \in StoreErrors
            /\ ~Conflict(c)'
            /\ calls'[c].result = NoDoc
       /\ (~Faulted(c) /\ Faulted(c)') =>
            /\ store' = store
            /\ calls[c].pc = "save1" => (calls'[c].inserts = 1 /\ calls'[c].queries = 0)
            /\ calls[c].pc = "q1" => (calls'[c].inserts = 1 /\ calls'[c].queries = 1)
            /\ calls[c].pc = "q2" => (calls'[c].inserts = 1 /\ calls'[c].queries = 2)
            /\ calls[c].pc = "save2" => (calls'[c].inserts = 2 /\ calls'[c].queries = 2)
       /\ Faulted(c) => calls'[c] = calls[c]]_vars

C13_Witness ==
  \E c1 \in Calls, c2 \in Calls, c3 \in Calls :
    /\ Rejected(c1) /\ calls[c1].error = "ReqlTimeoutError"
    /\ calls[c1].inserts = 1 /\ calls[c1].queries = 0
    /\ Rejected(c2) /\ calls[c2].error = "ReqlTimeoutError"
    /\ calls[c2].inserts = 1 /\ calls[c2].queries = 2
    /\ Conflict(c3)

\* the promise of call c is settled one way: with a document or with an error
OneOutcome(c) ==
  \/ Resolved(c) /\ calls[c].result # NoDoc /\ calls[c].error = "none"
  \/ Rejected(c) /\ calls[c].result = NoDoc /\ calls[c].error # "none"

\* C14  Bounded termination: when every store operation is answered (with a
\* result or an error), every call that was started settles, whatever the
\* other calls do: from some moment on no call is waiting any more; a call
\* settles one way and stays settled, and it issues at most two inserts and at
\* most two queries.
C14_BoundedTermination ==
  /\ [](\A c \in Calls :
         /\ calls[c].inserts <= 2 /\ calls[c].queries <= 2
         /\ Done(c) => OneOutcome(c))
  /\ [][\A c \in Calls : Done(c) => calls'[c] = calls[c]]_vars
  /\ <>[](\A c \in Calls : ~InFlight(c))

C14_Witness ==
  \E c1 \in Calls, c2 \in Calls :
    /\ Resolved(c1) /\ calls[c1].inserts = 2 /\ calls[c1].queries = 2
    /\ Conflict(c2) /\ calls[c2].inserts = 2 /\ calls[c2].queries = 2
    /\ calls[c1].result.name = calls[c2].slug.name

\* the rows in the table with the base name and the thing of call c's request
RowsOfRequest(c) ==
  {r \in store : r.baseName = calls[c].arg.name /\ r.thingID = calls[c].arg.thingID}

\* C15  Owner check precedes widening: a first insert refused for a duplicate
\* key is followed by the owner query; when rows with baseName = desiredName
\* and the calling thing exist, the call resolves with the one of greatest
\* createdOn, unchanged, after one insert attempt and one query, writes
\* nothing and does nothing more; the widened query is issued only after an
\* owner query that found nothing, and the second insert only after the
\* widened query.
C15_OwnerCheckFirst ==
  [][\A c \in Calls :
       /\ (calls[c].pc = "save1" /\ calls'[c].pc # "save1"
              /\ NameTaken(store, calls[c].arg.name))
            => calls'[c].pc = "q1"
       /\ (calls[c].pc = "q1" /\ calls'[c].pc # "q1" /\ RowsOfRequest(c) # {})
            => /\ calls'[c].pc = "resolved"
               /\ calls'[c].result \in RowsOfRequest(c)
               /\ \A r \in RowsOfRequest(c) : r.createdOn <= calls'[c].result.createdOn
               /\ calls'[c].inserts = 1 /\ calls'[c].queries = 1
               /\ calls'[c].made = {}
               /\ store' = store
       /\ (calls[c].pc = "q1" /\ calls'[c].pc # "q1" /\ RowsOfRequest(c) = {})
            => calls'[c].pc = "q2"
       /\ (calls[c].pc # "q2" /\ calls'[c].pc = "q2")
            => (calls[c].pc = "q1" /\ RowsOfRequest(c) = {})
       /\ (calls[c].pc # "save2" /\ calls'[c].pc = "save2") => calls[c].pc = "q2"
       /\ Resolved(c) => calls'[c] = calls[c]]_vars

C15_Witness ==
  \E c \in Calls :
    /\ Resolved(c) /\ calls[c].path = "owner"
    /\ calls[c].inserts = 1 /\ calls[c].queries = 1
    /\ Cardinality(RowsOfRequest(c)) = 2
    /\ \A r \in RowsOfRequest(c) : r.createdOn <= calls[c].result.createdOn

\* C16  No proliferation per owner: the table never holds two documents with
\* the same thingID and the same baseName, also when calls for the same thing
\* and the same desired name overlap.
C16_OneRowPerOwner ==
  \A r1 \in store, r2 \in store :
    (r1.thingID = r2.thingID /\ r1.baseName = r2.baseName) => r1 = r2

\* the qualifier of a row as a number; a row without qualifier counts as lower
\* than any qualifier
QualifierOf(r) == IF r.qualifierPart = Undefined THEN 0 ELSE DigitsToNat(r.qualifierPart)

\* the rows that share the base name of row r
SameBase(r) == {y \in store : y.baseName = r.baseName}

\* C17  Latest-record invariant: without deletions, among the rows that share
\* a base name the row with the greatest createdOn (set when the caller built
\* the document) carries the greatest qualifier, so the qualifier the widened
\* query leads to is not in use.
C17_LatestHasGreatestQualifier ==
  \A r \in store :
    (\A y \in SameBase(r) : y.createdOn <= r.createdOn)
      => \A y \in SameBase(r) : QualifierOf(y) <= QualifierOf(r)

\* the base names that have a row
BaseNames == {r.baseName : r \in store}

\* the qualifiers in use for base name b
QualifiersInUse(b) == {QualifierOf(r) : r \in Qualified(store, b)}

\* the qualifiers in use for b are 2..m without a gap
NoGap(b) == \A q \in QualifiersInUse(b) : q >= 2 /\ (q > 2 => (q - 1) \in QualifiersInUse(b))

\* a second insert stores a qualifier only after all smaller ones
InsertedInOrder ==
  \A c \in Calls :
    SecondInsertSucceeds(c) =>
      \A q \in 2..(QualifierOf(calls'[c].result) - 1) :
        q \in QualifiersInUse(calls[c].slug.baseName)

\* C18 as stated  Without deletions, for every base name b that has a row the
\* unqualified row named b (with base name b) is in the table, the qualifiers
\* in use for b are 2..m without a gap, and each qualifier was inserted after
\* all smaller ones.
C18_ContiguousWithUnqualifiedRow ==
  [][/\ \A b \in BaseNames' :
          /\ \E r \in store' :
               r.name = b /\ r.baseName = b /\ r.qualifierPart = Undefined
          /\ NoGap(b)'
     /\ InsertedInOrder]_vars

\* C18 amended  Without deletions, for every base name b that has a row a row
\* named b is in the table (the unqualified row of b, or a qualified row of
\* another base name that happens to be named b), the qualifiers in use for b
\* are 2..m without a gap, and each qualifier was inserted after all smaller
\* ones.
C18_ContiguousWithNamedRow ==
  [][/\ \A b \in BaseNames' :
          /\ \E r \in store' : r.name = b
          /\ NoGap(b)'
     /\ InsertedInOrder]_vars

C18_Witness ==
  /\ QualifiersInUse(<<"a">>) = {2, 3}
  /\ \E r \in store : r.name = <<"a">> /\ r.qualifierPart = Undefined
  /\ \E c \in Calls : Resolved(c) /\ calls[c].result.qualifierPart = <<"3">>

\* C19  The returned document matches the request: a call that resolves, by
\* its first insert, by the owner query or by its second insert, resolves with
\* a document whose baseName is the desired name and whose thingID is the
\* calling thing, and that document is in the table when the call resolves.
C19_ResultMatchesRequest ==
  [][\A c \in Calls :
       (~Resolved(c) /\ Resolved(c)') =>
         /\ calls'[c].path \in {"first", "owner", "second"}
         /\ calls'[c].result.baseName = calls[c].arg.name
         /\ calls'[c].result.thingID = calls[c].arg.thingID
         /\ calls'[c].result \in store']_vars

C19_Witness ==
  \E c1 \in Calls, c2 \in Calls, c3 \in Calls :
    /\ Resolved(c1) /\ calls[c1].path = "first"
    /\ Resolved(c2) /\ calls[c2].path = "second"
    /\ Resolved(c3) /\ calls[c3].path = "owner"
    /\ \A c \in {c1, c2, c3} :
         /\ calls[c].result.baseName = calls[c].arg.name
         /\ calls[c].result.thingID = calls[c].arg.thingID
         /\ calls[c].result \in store

\* calls c1 and c2 are the only calls, both for the name n and for different
\* things, and the table they started on (its rows have createdOn 0) held no
\* row named n or n-2 and no row with base name n
RaceOnNewName(c1, c2) ==
  LET n == calls[c1].arg.name IN
  /\ c1 # c2
  /\ Done(c1) /\ Done(c2)
  /\ \A c \in Calls \ {c1, c2} : calls[c].pc = "idle"
  /\ calls[c2].arg.name = n
  /\ calls[c1].arg.thingID # calls[c2].arg.thingID
  /\ \A r \in store :
       r.createdOn = 0 => (r.name # n /\ r.baseName # n /\ r.name # n \o <<"-", "2">>)

\* C20  Race on a new name: two such calls both resolve, in every
\* interleaving, one with the unqualified row n and the other with n-2.
C20_RaceOnNewName ==
  \A c1 \in Calls, c2 \in Calls :
    RaceOnNewName(c1, c2) =>
      LET n == calls[c1].arg.name IN
      /\ Resolved(c1) /\ Resolved(c2)
      /\ \E u \in {c1, c2}, q \in {c1, c2} :
           /\ u # q
           /\ calls[u].result.name = n /\ calls[u].result.qualifierPart = Undefined
           /\ calls[q].result.name = n \o <<"-", "2">>
           /\ calls[q].result.qualifierPart = <<"2">>
           /\ calls[q].result.baseName = n

C20_Witness ==
  \E c1 \in Calls, c2 \in Calls :
    /\ RaceOnNewName(c1, c2)
    /\ calls[c1].arg.createdOn < calls[c2].arg.createdOn
    /\ Resolved(c2) /\ calls[c2].path = "first"
    /\ Resolved(c1) /\ calls[c1].path = "second"
    /\ calls[c1].result.name = calls[c1].arg.name \o <<"-", "2">>

\* C21: label edit ordering. The revision's save is called only when the slug
\* update succeeded; the thing is indexed and the redirect sent only when
\* that save succeeded; when the slug update failed the revision is not
\* saved, nothing is indexed, no redirect is sent and the error went to next.
C21_SaveAfterSlugIndexAfterSave ==
  /\ edit.saveCalled => edit.slug = "ok"
  /\ edit.saved => edit.saveCalled
  /\ (edit.indexed \/ edit.response = "redirect") => edit.saved
  /\ edit.slug = "failed" =>
       /\ ~edit.saveCalled /\ ~edit.saved /\ ~edit.indexed
       /\ edit.response = "next"

\* the slug update of an edit failed and the request is answered
C21_Witness ==
  /\ edit.pc = "done" /\ edit.slug = "failed" /\ edit.newRevision
  /\ edit.response = "next"

\* C22: label edit permission gate. When the thing is loaded and the user may
\* not edit it, the permission error is rendered, and no revision is created,
\* no slug allocated, nothing saved or indexed.
C22_PermissionGate ==
  (edit.pc \notin {"idle", "load"} /\ edit.response # "resourceError"
     /\ ~edit.userCanEdit) =>
    /\ edit.pc = "done" /\ edit.response = "permissionError"
    /\ ~edit.newRevision /\ edit.slug = "none"
    /\ ~edit.saveCalled /\ ~edit.saved /\ ~edit.indexed

\* a thing was loaded for a user who may not edit it
C22_Witness ==
  /\ edit.pc = "done" /\ ~edit.userCanEdit
  /\ edit.response = "permissionError"

\* C23: upload validate-then-move. When the form data of any upload of the
\* submission is bad, no file of the submission is moved to its final
\* location or saved, and no move is under way.
C23_ValidateThenMove ==
  (\E i \in 1..Len(upl.files) : ~upl.files[i].validForm) =>
    \A j \in 1..Len(upl.files) :
      /\ upl.files[j].step = "none"
      /\ ~upl.files[j].renamed /\ ~upl.files[j].saved

\* where C23 fails: the request was answered with the error of an upload's
\* form data, and another upload of the submission was moved and saved as
\* completed
C23_MovedDespiteBadUpload ==
  \E i \in 1..Len(upl.files), j \in 1..Len(upl.files) :
    /\ ~upl.files[i].validForm
    /\ upl.response = "errorRedirect"
    /\ upl.files[j].renamed /\ upl.files[j].atFinal /\ upl.files[j].saved

\* C24: upload rollback and completion. An upload's metadata is saved only
\* after its file was moved; a failed move leaves nothing saved and the upload
\* failed; a failed save starts the move back and the upload is failed; the
\* 'upload completed' redirect is sent only when every upload was moved and
\* saved.
C24_RollbackAndCompletion ==
  /\ \A i \in 1..Len(upl.files) :
       LET f == upl.files[i]
       IN  /\ (f.step = "save" \/ f.saved) => f.renamed
           /\ (f.step = "settled" /\ f.goodName /\ ~f.renamed) =>
                 ~f.saved /\ f.promise = "rejected" /\ f.back = "none"
           /\ (f.step = "settled" /\ f.renamed /\ ~f.saved) =>
                 f.back # "none" /\ f.promise = "rejected"
           /\ f.back # "none" => f.renamed /\ ~f.saved
           /\ f.promise = "resolved" <=> f.saved
  /\ upl.response = "completedRedirect" =>
       \A i \in 1..Len(upl.files) : upl.files[i].renamed /\ upl.files[i].saved

\* of two uploads one was moved and saved, the other's save failed and its
\* file is moved back, and the request went to the error handler
C24_Witness ==
  /\ Len(upl.files) = 2
  /\ upl.files[1].renamed /\ upl.files[1].saved
  /\ upl.files[2].renamed /\ ~upl.files[2].saved /\ upl.files[2].back = "done"
  /\ upl.response = "next"

\* C25: late search responses are ignored. The response to a request that is
\* not the last one fired changes neither the result list nor what is
\* displayed; and once every response has arrived, none of them a failure,
\* the list and the display are those of the last request fired.
C25_LateResponsesIgnored ==
  [][/\ \A r \in ac.reqs :
          (r \notin ac'.reqs /\ r.id < ac.fired) =>
            ac'.results = ac.results /\ ac'.page = ac.page
     /\ (ac'.fired > 0 /\ ac'.reqs = {} /\ ~ac'.errorShown) =>
          ac'.results.of = ac'.fired /\ ac'.page.of = ac'.fired]_vars

\* where C25 fails: every response has arrived, and the list displayed is the
\* one of a request fired before the last one
C25_StaleResultsDisplayed ==
  /\ ac.reqs = {} /\ ~ac.errorShown
  /\ ac.results.filled /\ ac.results.of < ac.fired
  /\ ac.page.of = ac.results.of

\* C26: the failure of a request that is not the last one fired does not
\* show the generic error and does not hide the spinner while the last
\* request fired is pending.
C26_LateFailureIgnored ==
  [][\A r \in ac.reqs :
       (/\ r \notin ac'.reqs /\ r.id < ac.fired
        /\ \E l \in ac'.reqs : l.id = ac.fired) =>
         /\ ac'.errorShown = ac.errorShown
         /\ ac'.spinnerHidden = ac.spinnerHidden]_vars

\* where C26 fails: the last request fired is pending, no request before it
\* is, the error is shown and the spinner hidden
C26_ErrorWhileLatestPending ==
  /\ ac.fired > 1
  /\ \E l \in ac.reqs : l.id = ac.fired
  /\ ac.errorShown /\ ac.spinnerHidden

\* C27: search pagination round trip. With the pages of one query browsed
\* one after the other, a click on "previous page" requests the offset of the
\* page that was displayed before the matching click on "next page"; the page
\* displayed is always the one at the last offset of the history and the
\* stack holds the offsets before it; so going back as many times as forward
\* displays the first page, with an empty stack.
C27_PaginationRoundTrip ==
  [][/\ \A r \in ac'.reqs :
          (r.id = ac.fired + 1 /\ r.via = "prev") =>
            /\ Len(ac.shown) >= 2
            /\ r.requestedOffset = ac.shown[Len(ac.shown) - 1]
     /\ (ac'.reqs = {} /\ ac'.fired > 0) =>
          /\ ac'.page.of = ac'.fired
          /\ Len(ac'.shown) >= 1
          /\ ac'.page.requestedOffset = ac'.shown[Len(ac'.shown)]
          /\ ac'.prevStack = SubSeq(ac'.shown, 1, Len(ac'.shown) - 1)
          /\ Len(ac'.shown) = 1 =>
                /\ ac'.page.isFirstPage /\ ac'.page.requestedOffset = NoOffset
                /\ ac'.prevStack = <<>>]_vars

\* the first page is displayed again, with an empty stack, after the pages
\* at two different offsets were displayed
C27_Witness ==
  /\ ac.fired >= 5 /\ ac.reqs = {}
  /\ ac.page.of = ac.fired /\ ac.page.isFirstPage /\ ac.page.hasNext
  /\ ac.shown = <<NoOffset>> /\ ac.prevStack = <<>>

====
